---------------------------- MODULE Spec2Model ----------------------------
(***************************************************************************)
(* ThreadGenie: the edit session kept by the App component (React state    *)
(* plus the async handlers that drive it), the Generative Client wrappers  *)
(* of services/geminiService.ts and the pixel helpers of                   *)
(* utils/imageUtils.ts.                                                    *)
(*                                                                         *)
(* A handler is a closure over the state of the render in which it was     *)
(* started: what it reads after an await is the value captured when it was *)
(* invoked (currentImage, mimeType, editPrompt), while updateHistory uses  *)
(* the functional form of setHistory and so appends to the latest history. *)
(* Every in-flight handler is one record of ops, holding its position and  *)
(* its captured values.                                                    *)
(*                                                                         *)
(* Three specifications share the handlers and their continuations:        *)
(*   Spec         the application: handlers are started by the controls    *)
(*                the component renders, each under its rendered/disabled  *)
(*                condition;                                               *)
(*   SpecCalls    the edit session on its own: the handlers are called     *)
(*                directly, with no control in between, each call awaited  *)
(*                before the next is made;                                 *)
(*   SpecOverlap  the handlers called directly in any state, also while    *)
(*                earlier calls are still in flight.                       *)
(* SpecFair is Spec with every awaited promise settling.                   *)
(*                                                                         *)
(* In these the session carries an image as a payload with a flag telling  *)
(* whether removeBackground produced it.  SpecImageUtils runs the onload   *)
(* handlers of resizeImage and removeBackground on sizes and RGBA arrays,  *)
(* the session left untouched.                                             *)
(***************************************************************************)
EXTENDS Integers, Sequences, FiniteSets, TLC

\* ---------------------------------------------------------------- bounds
\* longest history the model lets the session build
MaxHist == 3
\* most handlers in flight at once
MaxOps == 2
\* most pixels of an image handed to removeBackground
MaxPixels == 2
\* longest side of the images handed to resizeImage, besides the listed sizes
MaxSide == 6

VARIABLES
  status,         \* ProcessingStatus
  originalImage,  \* base64 payload of the normalized upload, or Null
  currentImage,   \* data URL shown and transformed, or Null
  editPrompt,     \* text of the Magic Edit input
  mimeType,       \* MIME type sent with every Generative Client call
  error,          \* message shown in the error toast, or NoError
  history,        \* sequence of data URLs
  aistudio,       \* whether window.aistudio (the credential gate) exists
  ops,            \* handlers in flight, in the order they were started
  seeded,         \* the data URL the last upload seeded history with
                  \* (observation only)
  ev,             \* the step just taken (observation only)
  canvas          \* the image an imageUtils onload handler is working on

vars == <<status, originalImage, currentImage, editPrompt, mimeType, error,
          history, aistudio, ops, seeded, ev, canvas>>

session == <<status, originalImage, currentImage, editPrompt, mimeType, error,
             history>>

\* ----------------------------------------------------------------- values
Null == [tag |-> "null"]
NoError == "<null>"

ProcessingStatus ==
  {"idle", "uploading", "processing", "removing_background", "upscaling",
   "complete", "error"}

\* status values under which the controls are not disabled
Ready == {"idle", "complete"}

ErrImageSelect == "Failed to process image. Please try another file."
ErrTransform == "Something went wrong during the transformation. Please try again."
ErrMagicEdit == "Failed to edit image. The prompt might be against safety policies."
ErrUpscale == "Failed to upscale image. Ensure you have a valid API key selected for the Pro model."

\* the pictures a decoded upload or a Generative Client reply can show
Pictures == {"photo", "patch"}

\* A base64 payload: which picture it encodes, and whether the near-white
\* pixels of that picture have had their alpha zeroed.
Payloads == [id : Pictures, keyed : BOOLEAN]
Fresh == [id : Pictures, keyed : {FALSE}]

\* `data:${mime};base64,${b64}`
DataUrl(mime, b64) == [mime |-> mime, b64 |-> b64]

\* dataUrl.split(',')[1]
Base64Of(dataUrl) == dataUrl.b64

\* texts the Magic Edit input can hold, as sequences of characters
Prompts == { <<>>, <<" ">>, <<" ", "a">> }

IsSpace(c) == c = " "

RECURSIVE TrimStart(_)
TrimStart(s) ==
  IF s = <<>> THEN s
  ELSE IF IsSpace(Head(s)) THEN TrimStart(Tail(s)) ELSE s

RECURSIVE TrimEnd(_)
TrimEnd(s) ==
  IF s = <<>> THEN s
  ELSE IF IsSpace(s[Len(s)]) THEN TrimEnd(SubSeq(s, 1, Len(s) - 1)) ELSE s

\* String.prototype.trim
Trim(s) == TrimEnd(TrimStart(s))

\* JavaScript truthiness of an image value (string | null); data URLs and
\* payloads of decodable images are never the empty string
Truthy(x) == x # Null

\* ------------------------------------------------------ Generative Client
\* What ai.models.generateContent settles with: a response whose candidates
\* list is empty, or whose first candidate holds text parts and/or an image
\* part, or a rejection (network, quota, credential).
TextPart == [inlineData |-> Null]
ImagePart(p) == [inlineData |-> [data |-> p]]

Responses ==
  {[candidates |-> <<>>]}
    \cup {[candidates |-> << <<TextPart>> >>]}
    \cup {[candidates |-> << <<ImagePart(p)>> >>] : p \in Fresh}
    \cup {[candidates |-> << <<TextPart, ImagePart(p)>> >>] : p \in Fresh}

Rejected == [rejected |-> TRUE]

Replies == Responses \cup {Rejected}

Returned(v) == [ok |-> TRUE, val |-> v]
Thrown(m) == [ok |-> FALSE, val |-> m]

RECURSIVE FirstInline(_)
FirstInline(parts) ==
  IF parts = <<>> THEN Null
  ELSE IF Head(parts).inlineData # Null THEN Head(parts).inlineData.data
  ELSE FirstInline(Tail(parts))

extractImageFromResponse(response) ==
  IF Len(response.candidates) = 0
    THEN Thrown("No candidates returned from Gemini API")
  ELSE IF FirstInline(response.candidates[1]) # Null
    THEN Returned(FirstInline(response.candidates[1]))
  ELSE Thrown("No image data found in response. The model may have returned text only.")

\* generateEmbroidery / editImage / upscaleImage: log and rethrow, or extract
GenerateResult(reply) ==
  IF reply = Rejected THEN Thrown("generateContent rejected")
  ELSE extractImageFromResponse(reply)

\* the request a wrapper sends: the model, the inline image with its MIME
\* tag, and the instruction
ClientCall(model, b64, mime, text) ==
  [model |-> model, data |-> b64, mimeType |-> mime, text |-> text]

generateEmbroidery(base64Image, mime) ==
  ClientCall("gemini-2.5-flash-image", base64Image, mime, <<"EMBROIDERY_PROMPT">>)

editImage(base64Image, mime, prompt) ==
  ClientCall("gemini-2.5-flash-image", base64Image, mime, prompt)

upscaleImage(base64Image, mime) ==
  ClientCall("gemini-3-pro-image-preview", base64Image, mime, <<"Upscale to 4K">>)

\* ------------------------------------------------------------ Pixel helpers
ResizedMime == "image/jpeg"

\* removeBackground resolves with canvas.toDataURL('image/png') of the picture
\* with the alpha of its near-white pixels zeroed
removeBackground(dataUrl) ==
  DataUrl("image/png", [id |-> Base64Of(dataUrl).id, keyed |-> TRUE])

\* ------------------------------------------------- imageUtils on pixels
\* An image is its width, its height and, where the pixels matter, the flat
\* RGBA array getImageData returns (four numbers a pixel).
NoImage == [width |-> 0, height |-> 0, data |-> <<>>]

NoCanvas == [fn |-> "none", stage |-> "idle", img |-> NoImage, arg |-> 0,
             out |-> NoImage, once |-> NoImage]

\* the colour removeBackground removes
targetR == 255
targetG == 255
targetB == 255
\* removeBackground's default tolerance
DefaultTolerance == 30
\* resizeImage's default maxDimension
DefaultMaxDimension == 1024

Tolerances == {0, DefaultTolerance, DefaultTolerance + 1, 442}

\* white, three near-whites at distance 29, 30 and 30 from white, one at
\* distance 29.5, black, a translucent white and a transparent black
Palette == { <<255, 255, 255, 255>>, <<226, 255, 255, 255>>,
             <<225, 255, 255, 255>>, <<235, 235, 245, 255>>,
             <<237, 238, 239, 255>>, <<0, 0, 0, 255>>,
             <<255, 255, 255, 128>>, <<0, 0, 0, 0>> }

RECURSIVE ImageDataOf(_)
ImageDataOf(n) ==
  IF n = 0 THEN {<<>>}
  ELSE {p \o d : p \in Palette, d \in ImageDataOf(n - 1)}

Shapes == {s \in (1..MaxPixels) \X (1..MaxPixels) : s[1] * s[2] <= MaxPixels}

PixelImages ==
  UNION {[width : {s[1]}, height : {s[2]}, data : ImageDataOf(s[1] * s[2])]
           : s \in Shapes}

\* Math.sqrt(n) < tolerance for an integer tolerance: the square root lies in
\* [root, root + 1), so it is below the integer exactly when root is
SqrtBelow(n, tolerance) ==
  LET root == CHOOSE k \in 0..(targetR + targetG + targetB) :
                k * k <= n /\ n < (k + 1) * (k + 1)
  IN root < tolerance

\* variant of the loop body that also removes a pixel at exactly the tolerance
LoopBodyInclusive(data, i, tolerance) ==
  LET r == data[i]
      g == data[i + 1]
      b == data[i + 2]
      n == (r - targetR) * (r - targetR) + (g - targetG) * (g - targetG)
             + (b - targetB) * (b - targetB)
  IN IF SqrtBelow(n, tolerance) \/ n = tolerance * tolerance
     THEN [data EXCEPT ![i + 3] = 0] ELSE data

\* variant of the loop body that halves alpha instead of clearing it
LoopBodyFeathered(data, i, tolerance) ==
  LET r == data[i]
      g == data[i + 1]
      b == data[i + 2]
      n == (r - targetR) * (r - targetR) + (g - targetG) * (g - targetG)
             + (b - targetB) * (b - targetB)
  IN IF SqrtBelow(n, tolerance)
     THEN [data EXCEPT ![i + 3] = data[i + 3] \div 2] ELSE data

\* one turn of removeBackground's loop; i is the 1-based place of data[i]
LoopBody(data, i, tolerance) ==
  LET r == data[i]
      g == data[i + 1]
      b == data[i + 2]
      n == (r - targetR) * (r - targetR) + (g - targetG) * (g - targetG)
             + (b - targetB) * (b - targetB)
  IN IF SqrtBelow(n, tolerance)
     THEN [data EXCEPT ![i + 3] = 0] ELSE data

RECURSIVE RemoveLoop(_, _, _)
RemoveLoop(data, i, tolerance) ==
  IF i <= Len(data)
  THEN RemoveLoop(LoopBody(data, i, tolerance), i + 4, tolerance)
  ELSE data

\* img.onload of removeBackground: the canvas takes the image's size, the
\* loop runs over its pixels, and the result is what putImageData is given
removeBackgroundOnload(img, tolerance) ==
  [width |-> img.width, height |-> img.height,
   data |-> RemoveLoop(img.data, 1, tolerance)]

RECURSIVE Pow2(_)
Pow2(n) == IF n = 0 THEN 1 ELSE 2 * Pow2(n - 1)

\* (r * 2^k) mod n
RECURSIVE Doubled(_, _, _)
Doubled(r, k, n) == IF k = 0 THEN r ELSE Doubled((2 * r) % n, k - 1, n)

\* for 0 < m < w: the least c >= 1 with m * 2^c >= w, so that the double
\* m / w has the form N / 2^(52 + c) with 2^52 <= N <= 2^53
RECURSIVE Binade(_, _, _)
Binade(m, w, c) == IF m * Pow2(c) >= w THEN c ELSE Binade(m, w, c + 1)

\* floor of log2(x), x >= 1
RECURSIVE Log2(_, _)
Log2(x, e) == IF Pow2(e + 1) > x THEN e ELSE Log2(x, e + 1)

\* rho with  double(m / w) = m / w - rho / (w * 2^(52 + c)):  the remainder
\* of m * 2^(52 + c) by w, rounded to nearest, ties to the even N
QuotientError(m, w) ==
  LET c == Binade(m, w, 1)
      r2 == Doubled(m % (2 * w), 52 + c, 2 * w)
      R == r2 % w
  IN IF 2 * R < w THEN R
     ELSE IF 2 * R > w THEN R - w
     ELSE IF r2 >= w THEN R - w ELSE R

\* x *= m / w in doubles, then the canvas attribute's conversion to an
\* unsigned long, which drops the fraction (0 < m < w, 1 <= x <= w).
\* With E the whole part of x * m / w: the double product is in [E, E + 1)
\* unless x * m / w is whole, m / w was rounded down, and the shortfall
\* x * rho / (w * 2^(52 + c)) exceeds half the gap to the double below E.
ScaleAndTruncate(x, m, w) ==
  LET E == (x * m) \div w
      F == (x * m) % w
      rho == QuotientError(m, w)
      c == Binade(m, w, 1)
      e == Log2(E, 0)
      gap == IF Pow2(e) = E THEN w * Pow2(c + e - 1) ELSE w * Pow2(c + e)
  IN IF F # 0 \/ rho <= 0 THEN E
     ELSE IF 2 * x * rho > gap THEN E - 1 ELSE E

\* variant of resizeImage's onload without the else branch: only images wider
\* than tall are limited
resizeImageOnloadLandscapeOnly(img, maxDimension) ==
  IF img.width > img.height /\ img.width > maxDimension
  THEN [width |-> maxDimension,
        height |-> ScaleAndTruncate(img.height, maxDimension, img.width),
        data |-> <<>>]
  ELSE [width |-> img.width, height |-> img.height, data |-> <<>>]

\* img.onload of resizeImage, up to the size given to the canvas
resizeImageOnload(img, maxDimension) ==
  IF img.width > img.height
  THEN IF img.width > maxDimension
       THEN [width |-> maxDimension,
             height |-> ScaleAndTruncate(img.height, maxDimension, img.width),
             data |-> <<>>]
       ELSE [width |-> img.width, height |-> img.height, data |-> <<>>]
  ELSE IF img.height > maxDimension
       THEN [width |-> ScaleAndTruncate(img.width, maxDimension, img.height),
             height |-> maxDimension,
             data |-> <<>>]
       ELSE [width |-> img.width, height |-> img.height, data |-> <<>>]

\* sizes beyond MaxSide: the 2000 x 1000 photo, two sizes whose scaled side
\* is whole but comes out one short in doubles, a square and a sliver
ListedSizes == { <<2000, 1000>>, <<1000, 2000>>, <<1122, 561>>,
                 <<1288, 161>>, <<3000, 3000>>, <<2048, 1>>, <<1024, 768>> }

ResizeInputs ==
  {[img |-> [width |-> w, height |-> h, data |-> <<>>], arg |-> m]
     : w \in 1..MaxSide, h \in 1..MaxSide, m \in 1..MaxSide}
  \cup {[img |-> [width |-> s[1], height |-> s[2], data |-> <<>>],
         arg |-> DefaultMaxDimension] : s \in ListedSizes}

\* ------------------------------------------------------- handlers in flight
\* img, mime and prompt are the values the handler's closure captured; sent is
\* the Generative Client request it has issued, gen the generated data URL it
\* holds; h0 is the history at its invocation (observation only)
NewOp(kind, pc, text, sent) ==
  [kind |-> kind, pc |-> pc, img |-> currentImage, mime |-> mimeType,
   prompt |-> text, sent |-> sent, gen |-> Null, h0 |-> history]

RemoveAt(s, i) == SubSeq(s, 1, i - 1) \o SubSeq(s, i + 1, Len(s))

Appenders == {i \in 1..Len(ops) : ops[i].kind # "upload"}

\* model bound: a new handler fits, and so does the entry it may append
Room == Len(ops) < MaxOps
RoomToAppend == Room /\ Len(history) + Cardinality(Appenders) < MaxHist

\* the step just taken: its name, whether the handler went past its guard,
\* and the message of what it caught
NoThrow == "<none>"

Event(name, accepted, thrown) ==
  [name |-> name, accepted |-> accepted, thrown |-> thrown]

Step(name) == Event(name, TRUE, NoThrow)
Catches(name, thrown) == Event(name, TRUE, thrown)

Rejects(name) ==
  /\ ev' = Event(name, FALSE, NoThrow)
  /\ UNCHANGED <<session, aistudio, canvas, ops, seeded>>

\* variant of updateHistory that forgets setCurrentImage
updateHistoryKeepsCurrent(prev, newImageUrl) ==
  [history |-> Append(prev, newImageUrl), currentImage |-> currentImage]

\* updateHistory: setHistory(prev => [...prev, newImageUrl]); setCurrentImage
updateHistory(prev, newImageUrl) ==
  [history |-> Append(prev, newImageUrl), currentImage |-> newImageUrl]

\* ------------------------------------------------------------------- Init
Init ==
  /\ status = "idle"
  /\ originalImage = Null
  /\ currentImage = Null
  /\ editPrompt = <<>>
  /\ mimeType = "image/jpeg"
  /\ error = NoError
  /\ history = <<>>
  /\ aistudio \in BOOLEAN
  /\ ops = <<>>
  /\ seeded = Null
  /\ ev = Step("init")
  /\ canvas = NoCanvas

\* ------------------------------------------------------ handleImageSelect
handleImageSelect ==
  /\ Room
  /\ status' = "uploading"
  /\ error' = NoError
  /\ ops' = Append(ops, NewOp("upload", "resize", <<>>, Null))
  /\ ev' = Step("handleImageSelect")
  /\ UNCHANGED <<originalImage, currentImage, editPrompt, mimeType, history,
                 aistudio, canvas, seeded>>

\* variant of the success path that stores the uploaded file's own type
\* instead of the type resizeImage encoded to
ResizeResolvedFileType(i) ==
  /\ ops[i].kind = "upload" /\ ops[i].pc = "resize"
  /\ \E base64 \in Fresh :
       LET dataUrl == DataUrl(ResizedMime, base64) IN
       /\ originalImage' = base64
       /\ currentImage' = dataUrl
       /\ history' = <<dataUrl>>
       /\ seeded' = dataUrl
  /\ mimeType' = "image/png"
  /\ status' = "idle"
  /\ ops' = RemoveAt(ops, i)
  /\ ev' = Step("ResizeResolved")
  /\ UNCHANGED <<editPrompt, error, aistudio, canvas>>

\* variant of the success path that forgets setHistory([dataUrl])
ResizeResolvedNoHistory(i) ==
  /\ ops[i].kind = "upload" /\ ops[i].pc = "resize"
  /\ \E base64 \in Fresh :
       LET dataUrl == DataUrl(ResizedMime, base64) IN
       /\ originalImage' = base64
       /\ currentImage' = dataUrl
       /\ mimeType' = ResizedMime
       /\ seeded' = dataUrl
  /\ status' = "idle"
  /\ ops' = RemoveAt(ops, i)
  /\ ev' = Step("ResizeResolved")
  /\ UNCHANGED <<editPrompt, error, history, aistudio, canvas>>

ResizeResolved(i) ==
  /\ ops[i].kind = "upload" /\ ops[i].pc = "resize"
  /\ \E base64 \in Fresh :
       LET dataUrl == DataUrl(ResizedMime, base64) IN
       /\ originalImage' = base64
       /\ currentImage' = dataUrl
       /\ mimeType' = ResizedMime
       /\ history' = <<dataUrl>>
       /\ seeded' = dataUrl
  /\ status' = "idle"
  /\ ops' = RemoveAt(ops, i)
  /\ ev' = Step("ResizeResolved")
  /\ UNCHANGED <<editPrompt, error, aistudio, canvas>>

\* variant of the catch block that also drops the stored original
ResizeRejectedClearsOriginal(i) ==
  /\ ops[i].kind = "upload" /\ ops[i].pc = "resize"
  /\ error' = ErrImageSelect
  /\ status' = "error"
  /\ originalImage' = Null
  /\ ops' = RemoveAt(ops, i)
  /\ ev' = Catches("ResizeRejected", "resizeImage rejected")
  /\ UNCHANGED <<currentImage, editPrompt, mimeType, history, aistudio, canvas, seeded>>

ResizeRejected(i) ==
  /\ ops[i].kind = "upload" /\ ops[i].pc = "resize"
  /\ error' = ErrImageSelect
  /\ status' = "error"
  /\ ops' = RemoveAt(ops, i)
  /\ ev' = Catches("ResizeRejected", "resizeImage rejected")
  /\ UNCHANGED <<originalImage, currentImage, editPrompt, mimeType, history,
                 aistudio, canvas, seeded>>

\* ----------------------------------------------- handleEmbroideryTransform
EmbroideryGuard == Truthy(currentImage) /\ Truthy(originalImage)

handleEmbroideryTransform ==
  IF ~EmbroideryGuard THEN Rejects("handleEmbroideryTransform")
  ELSE
    /\ RoomToAppend
    /\ status' = "processing"
    /\ error' = NoError
    /\ ops' = Append(ops, NewOp("style", "gen", <<>>,
                     generateEmbroidery(Base64Of(currentImage), mimeType)))
    /\ ev' = Step("handleEmbroideryTransform")
    /\ UNCHANGED <<originalImage, currentImage, editPrompt, mimeType, history,
                   aistudio, canvas, seeded>>

EmbroideryGenerated(i) ==
  /\ ops[i].kind = "style" /\ ops[i].pc = "gen"
  /\ \E reply \in Replies :
       /\ GenerateResult(reply).ok
       /\ ops' = [ops EXCEPT ![i].pc = "rb",
                             ![i].gen = DataUrl("image/jpeg", GenerateResult(reply).val)]
  /\ status' = "removing_background"
  /\ ev' = Step("EmbroideryGenerated")
  /\ UNCHANGED <<originalImage, currentImage, editPrompt, mimeType, error,
                 history, aistudio, canvas, seeded>>

EmbroideryCaught(i) ==
  /\ ops[i].kind = "style"
  /\ \/ /\ ops[i].pc = "gen"
        /\ \E reply \in Replies :
             /\ ~GenerateResult(reply).ok
             /\ ev' = Catches("EmbroideryCaught", GenerateResult(reply).val)
     \/ /\ ops[i].pc = "rb"
        /\ ev' = Catches("EmbroideryCaught", "removeBackground rejected")
  /\ error' = ErrTransform
  /\ status' = "error"
  /\ ops' = RemoveAt(ops, i)
  /\ UNCHANGED <<originalImage, currentImage, editPrompt, mimeType, history,
                 aistudio, canvas, seeded>>

BackgroundRemoved(i) ==
  /\ ops[i].kind = "style" /\ ops[i].pc = "rb"
  /\ LET u == updateHistory(history, removeBackground(ops[i].gen)) IN
       /\ history' = u.history
       /\ currentImage' = u.currentImage
  /\ status' = "complete"
  /\ ops' = RemoveAt(ops, i)
  /\ ev' = Step("BackgroundRemoved")
  /\ UNCHANGED <<originalImage, editPrompt, mimeType, error, aistudio, canvas, seeded>>

\* --------------------------------------------------------- handleMagicEdit
\* variant of the guard that tests the prompt without trimming it
MagicEditGuardUntrimmed == Truthy(currentImage) /\ editPrompt # <<>>

MagicEditGuard == Truthy(currentImage) /\ Trim(editPrompt) # <<>>

handleMagicEdit ==
  IF ~MagicEditGuard THEN Rejects("handleMagicEdit")
  ELSE
    /\ RoomToAppend
    /\ status' = "processing"
    /\ error' = NoError
    /\ ops' = Append(ops, NewOp("edit", "gen", editPrompt,
                     editImage(Base64Of(currentImage), mimeType, editPrompt)))
    /\ ev' = Step("handleMagicEdit")
    /\ UNCHANGED <<originalImage, currentImage, editPrompt, mimeType, history,
                   aistudio, canvas, seeded>>

\* variant of the success path that runs removeBackground on the result, as the
\* embroidery flow does
MagicEditResolvedKeyed(i) ==
  /\ ops[i].kind = "edit" /\ ops[i].pc = "gen"
  /\ \E reply \in Replies :
       /\ GenerateResult(reply).ok
       /\ LET u == updateHistory(history,
                     removeBackground(DataUrl("image/jpeg", GenerateResult(reply).val))) IN
            /\ history' = u.history
            /\ currentImage' = u.currentImage
  /\ status' = "complete"
  /\ editPrompt' = <<>>
  /\ ops' = RemoveAt(ops, i)
  /\ ev' = Step("MagicEditResolved")
  /\ UNCHANGED <<originalImage, mimeType, error, aistudio, canvas, seeded>>

MagicEditResolved(i) ==
  /\ ops[i].kind = "edit" /\ ops[i].pc = "gen"
  /\ \E reply \in Replies :
       /\ GenerateResult(reply).ok
       /\ LET u == updateHistory(history,
                     DataUrl("image/jpeg", GenerateResult(reply).val)) IN
            /\ history' = u.history
            /\ currentImage' = u.currentImage
  /\ status' = "complete"
  /\ editPrompt' = <<>>
  /\ ops' = RemoveAt(ops, i)
  /\ ev' = Step("MagicEditResolved")
  /\ UNCHANGED <<originalImage, mimeType, error, aistudio, canvas, seeded>>

MagicEditCaught(i) ==
  /\ ops[i].kind = "edit" /\ ops[i].pc = "gen"
  /\ \E reply \in Replies :
       /\ ~GenerateResult(reply).ok
       /\ ev' = Catches("MagicEditCaught", GenerateResult(reply).val)
  /\ error' = ErrMagicEdit
  /\ status' = "error"
  /\ ops' = RemoveAt(ops, i)
  /\ UNCHANGED <<originalImage, currentImage, editPrompt, mimeType, history,
                 aistudio, canvas, seeded>>

\* ----------------------------------------------------------- handleUpscale
UpscaleGuard == Truthy(currentImage)

\* the try block of handleUpscale up to its await, run by the in-flight
\* handler op; others is the rest of ops, in order, around it
UpscaleTry(name, op, before, after) ==
  /\ status' = "upscaling"
  /\ error' = NoError
  /\ ops' = before \o <<[op EXCEPT !.pc = "gen",
                                  !.sent = upscaleImage(Base64Of(op.img), op.mime)]>>
                  \o after
  /\ ev' = Step(name)
  /\ UNCHANGED <<originalImage, currentImage, editPrompt, mimeType, history,
                 aistudio, canvas, seeded>>

handleUpscale ==
  IF ~UpscaleGuard THEN Rejects("handleUpscale")
  ELSE
    /\ RoomToAppend
    /\ IF aistudio
         THEN /\ ops' = Append(ops, NewOp("upscale", "hasSelectedApiKey", <<>>, Null))
              /\ ev' = Step("handleUpscale")
              /\ UNCHANGED <<session, aistudio, canvas, seeded>>
         ELSE UpscaleTry("handleUpscale", NewOp("upscale", "try", <<>>, Null),
                         ops, <<>>)

\* window.aistudio.hasSelectedApiKey() resolves
HasSelectedApiKeyResolved(i) ==
  /\ ops[i].kind = "upscale" /\ ops[i].pc = "hasSelectedApiKey"
  /\ \E hasKey \in BOOLEAN :
       IF ~hasKey
         THEN /\ ops' = [ops EXCEPT ![i].pc = "openSelectKey"]
              /\ ev' = Step("HasSelectedApiKeyResolved")
              /\ UNCHANGED <<session, aistudio, canvas, seeded>>
         ELSE UpscaleTry("HasSelectedApiKeyResolved", ops[i],
                         SubSeq(ops, 1, i - 1), SubSeq(ops, i + 1, Len(ops)))

\* window.aistudio.openSelectKey() resolves
OpenSelectKeyResolved(i) ==
  /\ ops[i].kind = "upscale" /\ ops[i].pc = "openSelectKey"
  /\ UpscaleTry("OpenSelectKeyResolved", ops[i],
                SubSeq(ops, 1, i - 1), SubSeq(ops, i + 1, Len(ops)))

\* either credential-gate promise rejects: both awaits precede the try block
CredentialGateRejected(i) ==
  /\ ops[i].kind = "upscale"
  /\ ops[i].pc \in {"hasSelectedApiKey", "openSelectKey"}
  /\ ops' = RemoveAt(ops, i)
  /\ ev' = Catches("CredentialGateRejected", ops[i].pc)
  /\ UNCHANGED <<session, aistudio, canvas, seeded>>

UpscaleResolved(i) ==
  /\ ops[i].kind = "upscale" /\ ops[i].pc = "gen"
  /\ \E reply \in Replies :
       /\ GenerateResult(reply).ok
       /\ LET u == updateHistory(history,
                     DataUrl("image/jpeg", GenerateResult(reply).val)) IN
            /\ history' = u.history
            /\ currentImage' = u.currentImage
  /\ status' = "complete"
  /\ ops' = RemoveAt(ops, i)
  /\ ev' = Step("UpscaleResolved")
  /\ UNCHANGED <<originalImage, editPrompt, mimeType, error, aistudio, canvas, seeded>>

\* variant of the catch block of handleUpscale that forgets setStatus('error')
UpscaleCaughtKeepsStatus(i) ==
  /\ ops[i].kind = "upscale" /\ ops[i].pc = "gen"
  /\ \E reply \in Replies :
       /\ ~GenerateResult(reply).ok
       /\ ev' = Catches("UpscaleCaught", GenerateResult(reply).val)
  /\ error' = ErrUpscale
  /\ ops' = RemoveAt(ops, i)
  /\ UNCHANGED <<status, originalImage, currentImage, editPrompt, mimeType,
                 history, aistudio, canvas, seeded>>

UpscaleCaught(i) ==
  /\ ops[i].kind = "upscale" /\ ops[i].pc = "gen"
  /\ \E reply \in Replies :
       /\ ~GenerateResult(reply).ok
       /\ ev' = Catches("UpscaleCaught", GenerateResult(reply).val)
  /\ error' = ErrUpscale
  /\ status' = "error"
  /\ ops' = RemoveAt(ops, i)
  /\ UNCHANGED <<originalImage, currentImage, editPrompt, mimeType, history,
                 aistudio, canvas, seeded>>

\* ------------------------------------------------- handleUndo, handleReset
UndoGuard == Len(history) > 1

\* variant of handleUndo that also puts status back to idle
handleUndoToIdle ==
  IF ~(Len(history) > 1) THEN Rejects("handleUndo")
  ELSE
    LET newHistory == SubSeq(history, 1, Len(history) - 1) IN
    /\ history' = newHistory
    /\ currentImage' = newHistory[Len(newHistory)]
    /\ status' = "idle"
    /\ ev' = Step("handleUndo")
    /\ UNCHANGED <<originalImage, editPrompt, mimeType, error,
                   aistudio, canvas, ops, seeded>>

\* variant of handleUndo whose guard lets the last entry go
handleUndoToEmpty ==
  IF ~(Len(history) > 0) THEN Rejects("handleUndo")
  ELSE
    LET newHistory == SubSeq(history, 1, Len(history) - 1) IN
    /\ history' = newHistory
    /\ currentImage' = IF newHistory = <<>> THEN Null
                       ELSE newHistory[Len(newHistory)]
    /\ ev' = Step("handleUndo")
    /\ UNCHANGED <<status, originalImage, editPrompt, mimeType, error,
                   aistudio, canvas, ops, seeded>>

handleUndo ==
  IF ~UndoGuard THEN Rejects("handleUndo")
  ELSE
    LET newHistory == SubSeq(history, 1, Len(history) - 1) IN
    /\ history' = newHistory
    /\ currentImage' = newHistory[Len(newHistory)]
    /\ ev' = Step("handleUndo")
    /\ UNCHANGED <<status, originalImage, editPrompt, mimeType, error,
                   aistudio, canvas, ops, seeded>>

ResetGuard == Truthy(originalImage) /\ mimeType # ""

\* variant of handleReset that keeps the first history entry as a PNG
handleResetAsPng ==
  IF ~ResetGuard THEN Rejects("handleReset")
  ELSE
    LET initialUrl == DataUrl("image/png", originalImage) IN
    /\ history' = <<initialUrl>>
    /\ currentImage' = initialUrl
    /\ ev' = Step("handleReset")
    /\ UNCHANGED <<status, originalImage, editPrompt, mimeType, error,
                   aistudio, canvas, ops, seeded>>

handleReset ==
  IF ~ResetGuard THEN Rejects("handleReset")
  ELSE
    LET initialUrl == DataUrl(mimeType, originalImage) IN
    /\ history' = <<initialUrl>>
    /\ currentImage' = initialUrl
    /\ ev' = Step("handleReset")
    /\ UNCHANGED <<status, originalImage, editPrompt, mimeType, error,
                   aistudio, canvas, ops, seeded>>

\* ------------------------------------------- the input and the error toast
\* onChange of the Magic Edit input
setEditPrompt(text) ==
  /\ editPrompt' = text
  /\ ev' = Step("setEditPrompt")
  /\ UNCHANGED <<status, originalImage, currentImage, mimeType, error,
                 history, aistudio, canvas, ops, seeded>>

\* the toast's close button, rendered while error is set
DismissError ==
  /\ error # NoError
  /\ error' = NoError
  /\ ev' = Step("DismissError")
  /\ UNCHANGED <<status, originalImage, currentImage, editPrompt, mimeType,
                 history, aistudio, canvas, ops, seeded>>

\* ------------------------------------------------------------ the controls
\* what the component renders, and the disabled attribute of each control
UploaderRendered == ~Truthy(currentImage)
UploaderEnabled == UploaderRendered /\ ~(status # "idle" /\ status # "error")

EditorRendered == Truthy(currentImage)
NotReady == status # "idle" /\ status # "complete"

UndoEnabled == EditorRendered /\ Len(history) > 1 /\ ~NotReady
ResetEnabled == EditorRendered /\ ~(Len(history) <= 1 \/ NotReady)
EmbroideryEnabled == EditorRendered /\ ~NotReady
PromptInputEnabled == EditorRendered /\ ~NotReady
MagicEditEnabled == EditorRendered /\ ~(Trim(editPrompt) = <<>> \/ NotReady)
UpscaleEnabled == EditorRendered /\ ~NotReady

SelectFile == UploaderEnabled /\ handleImageSelect
ClickUndo == UndoEnabled /\ handleUndo
ClickReset == ResetEnabled /\ handleReset
ClickEmbroidery == EmbroideryEnabled /\ handleEmbroideryTransform
TypePrompt == PromptInputEnabled /\ \E text \in Prompts : setEditPrompt(text)
PressEnter == PromptInputEnabled /\ handleMagicEdit
ClickMagicEdit == MagicEditEnabled /\ handleMagicEdit
ClickUpscale == UpscaleEnabled /\ handleUpscale

\* ------------------------------------------------- continuations of awaits
Settle ==
  \E i \in 1..Len(ops) :
    \/ ResizeResolved(i)
    \/ ResizeRejected(i)
    \/ EmbroideryGenerated(i)
    \/ EmbroideryCaught(i)
    \/ BackgroundRemoved(i)
    \/ MagicEditResolved(i)
    \/ MagicEditCaught(i)
    \/ HasSelectedApiKeyResolved(i)
    \/ OpenSelectKeyResolved(i)
    \/ CredentialGateRejected(i)
    \/ UpscaleResolved(i)
    \/ UpscaleCaught(i)

\* ---------------------------------------------------------- specifications
Next ==
  \/ SelectFile
  \/ ClickUndo
  \/ ClickReset
  \/ ClickEmbroidery
  \/ TypePrompt
  \/ PressEnter
  \/ ClickMagicEdit
  \/ ClickUpscale
  \/ DismissError
  \/ Settle

Spec == Init /\ [][Next]_vars

\* every awaited promise (resizeImage, generateContent, removeBackground, the
\* credential gate) settles: the continuation of an await that has settled is
\* run by the event loop
SpecFair == Spec /\ WF_vars(Settle)

CallSetEditPrompt == \E text \in Prompts : setEditPrompt(text)

Call ==
  \/ handleImageSelect
  \/ handleUndo
  \/ handleReset
  \/ handleEmbroideryTransform
  \/ CallSetEditPrompt
  \/ handleMagicEdit
  \/ handleUpscale
  \/ DismissError

CallsNext == (ops = <<>> /\ Call) \/ Settle

SpecCalls == Init /\ [][CallsNext]_vars

OverlapNext == Call \/ Settle

SpecOverlap == Init /\ [][OverlapNext]_vars

\* the imageUtils onload handlers on their own, the session untouched
ImageUtilsInit ==
  /\ status = "idle"
  /\ originalImage = Null
  /\ currentImage = Null
  /\ editPrompt = <<>>
  /\ mimeType = "image/jpeg"
  /\ error = NoError
  /\ history = <<>>
  /\ aistudio = FALSE
  /\ ops = <<>>
  /\ seeded = Null
  /\ ev = Step("init")
  /\ \/ \E in \in ResizeInputs :
          canvas = [fn |-> "resizeImage", stage |-> "loaded", img |-> in.img,
                    arg |-> in.arg, out |-> NoImage, once |-> NoImage]
     \/ \E img \in PixelImages, tolerance \in Tolerances :
          canvas = [fn |-> "removeBackground", stage |-> "loaded",
                    img |-> img, arg |-> tolerance, out |-> NoImage,
                    once |-> NoImage]

ResizeOnload ==
  /\ canvas.fn = "resizeImage" /\ canvas.stage = "loaded"
  /\ canvas' = [canvas EXCEPT !.stage = "drawn",
                              !.out = resizeImageOnload(canvas.img, canvas.arg)]
  /\ UNCHANGED <<session, aistudio, ops, seeded, ev>>

RemoveBackgroundOnload ==
  /\ canvas.fn = "removeBackground" /\ canvas.stage = "loaded"
  /\ LET out == removeBackgroundOnload(canvas.img, canvas.arg) IN
       canvas' = [canvas EXCEPT !.stage = "keyed", !.out = out, !.once = out]
  /\ UNCHANGED <<session, aistudio, ops, seeded, ev>>

\* removeBackground applied to the pixels it produced
RemoveBackgroundAgain ==
  /\ canvas.fn = "removeBackground" /\ canvas.stage = "keyed"
  /\ canvas' = [canvas EXCEPT
                  !.stage = "rekeyed",
                  !.out = removeBackgroundOnload(canvas.out, canvas.arg)]
  /\ UNCHANGED <<session, aistudio, ops, seeded, ev>>

ImageUtilsNext ==
  \/ ResizeOnload
  \/ RemoveBackgroundOnload
  \/ RemoveBackgroundAgain

SpecImageUtils == ImageUtilsInit /\ [][ImageUtilsNext]_vars


\* ------------------------------------------------------------------ claims
TransformHandlers == {"handleEmbroideryTransform", "handleMagicEdit", "handleUpscale"}

\* C1: a call of handleEmbroideryTransform, handleMagicEdit or handleUpscale made
\* while status is neither idle nor complete changes nothing: status, history,
\* currentImage, originalImage, the prompt and the error message stay as they
\* are and no handler is left in flight (so no Generative Client call is made).
C1_StatusGate ==
  [][(ev'.name \in TransformHandlers /\ NotReady)
       => UNCHANGED <<status, history, currentImage, originalImage, editPrompt,
                      error, ops>>]_vars

\* C2: at most one handler (upload, style transform, prompt edit, upscale) is
\* in flight at any time, the credential-gate wait of handleUpscale included.
C2_SingleOperationInFlight == Len(ops) <= 1

\* C3: once an upload has succeeded, history is non-empty and currentImage is
\* its last element, whatever handlers ran or are still running.
C3_HistoryInvariant ==
  originalImage # Null
    => (Len(history) >= 1 /\ currentImage = history[Len(history)])

\* an undo performed while another handler is in flight, inside a session
C3_Witness ==
  /\ originalImage # Null
  /\ ev.name = "handleUndo" /\ ev.accepted
  /\ ops # <<>>

\* C4: within a session undo never takes the last entry: after an undo history
\* still has at least one entry, and an undo called with exactly one entry
\* changes neither history nor currentImage.
C4_UndoKeepsOne ==
  [][(ev'.name = "handleUndo" /\ Len(history) >= 1)
       => /\ Len(history') >= 1
          /\ Len(history) = 1 => UNCHANGED <<history, currentImage>>]_vars

\* an undo that was called with exactly one entry and turned away
C4_Witness ==
  ev.name = "handleUndo" /\ ~ev.accepted /\ Len(history) = 1

\* C5: right after a reset, history is the one-element sequence holding the
\* normalized image the upload seeded the session with, and currentImage is
\* that image.
C5_ResetRestoresOriginal ==
  (ev.name = "handleReset" /\ ev.accepted)
    => (history = <<seeded>> /\ currentImage = seeded)

\* a reset that ran (the Reset button is enabled only with two or more entries)
C5_Witness ==
  ev.name = "handleReset" /\ ev.accepted /\ seeded # Null

\* C6: when handleEmbroideryTransform ends in its catch block (the Generative
\* Client or removeBackground failed), status is error and history and
\* currentImage are what they were when that handler was invoked.
C6_StyleAllOrNothing ==
  [][\A i \in 1..Len(ops) :
       (ev'.name = "EmbroideryCaught" /\ ops[i].kind = "style"
          /\ ops' = RemoveAt(ops, i))
         => (status' = "error" /\ history' = ops[i].h0
               /\ currentImage' = ops[i].img)]_vars

\* C7: when the Generative Client fails in handleMagicEdit or handleUpscale
\* (no candidates, text only, or a rejection), status is error, an error
\* message is set and history is what it was when that handler was invoked.
C7_GenerationFailed ==
  [][\A i \in 1..Len(ops) :
       (ev'.name \in {"MagicEditCaught", "UpscaleCaught"}
          /\ ops[i].kind \in {"edit", "upscale"} /\ ops[i].pc = "gen"
          /\ ops' = RemoveAt(ops, i))
         => (status' = "error" /\ error' # NoError
               /\ history' = ops[i].h0)]_vars

\* C8: handleMagicEdit called with a prompt that is empty once trimmed changes
\* neither status, history, currentImage nor the error message, and leaves no
\* handler in flight (no Generative Client call).
C8_BlankPromptRejected ==
  [][(ev'.name = "handleMagicEdit" /\ Trim(editPrompt) = <<>>)
       => UNCHANGED <<status, history, currentImage, error, ops>>]_vars

\* Enter pressed in the prompt input of an open session holding only a space
C8_Witness ==
  /\ ev.name = "handleMagicEdit" /\ ~ev.accepted
  /\ currentImage # Null
  /\ editPrompt = <<" ">>

\* C9: whenever status is error, some control that starts a top-level
\* operation is enabled and its handler goes past its guard: the uploader, the
\* embroidery button, the prompt input (Enter) or the upscale button.
C9_ErrorEscapable ==
  status = "error"
    => \/ UploaderEnabled
       \/ EmbroideryEnabled /\ EmbroideryGuard
       \/ PromptInputEnabled /\ MagicEditGuard
       \/ UpscaleEnabled /\ UpscaleGuard

\* C10: whatever a handler's sub-step throws (resizeImage, the Generative
\* Client, removeBackground, hasSelectedApiKey, openSelectKey), the handler
\* ends with status error and an error message set.
C10_FailuresCaught ==
  ev.thrown # NoThrow => (status = "error" /\ error # NoError)

\* C11: once a transform has set status to processing, removing_background or
\* upscaling, status eventually becomes complete or error (every awaited call
\* settling), and no step takes status from one of these three back to idle.
Transient == {"processing", "removing_background", "upscaling"}

C11_RunsToCompletion ==
  /\ (status \in Transient) ~> (status \in {"complete", "error"})
  /\ [][(status \in Transient) => (status' # "idle")]_vars

\* a transform that went through removing_background and completed, and one
\* that ended in its catch block
C11_Witness ==
  \/ ev.name = "BackgroundRemoved" /\ status = "complete"
  \/ ev.name = "UpscaleCaught" /\ status = "error"

\* C12: handleImageSelect first sets status to uploading; when resizeImage
\* resolves, originalImage is set, history is the one-element sequence holding
\* the normalized image, currentImage is that image and status is idle; when
\* it rejects, status is error and there is still no session (history empty,
\* currentImage and originalImage unset).
C12_BeginSession ==
  /\ ev.name = "handleImageSelect" => status = "uploading"
  /\ ev.name = "ResizeResolved"
       => /\ originalImage # Null
          /\ history = <<DataUrl("image/jpeg", originalImage)>>
          /\ currentImage = history[1]
          /\ status = "idle"
  /\ ev.name = "ResizeRejected"
       => /\ status = "error"
          /\ history = <<>>
          /\ currentImage = Null
          /\ originalImage = Null

\* an upload that succeeded
C12_Witness ==
  ev.name = "ResizeResolved" /\ Len(history) = 1 /\ status = "idle"

\* C13: a handleEmbroideryTransform that succeeds takes status through
\* processing, removing_background and complete, in that order with nothing in
\* between, and appends one entry, the removeBackground output of the
\* generated image, to the history it started from.
C13_StyleStatusOrder ==
  [][/\ (ev'.name = "handleEmbroideryTransform" /\ ev'.accepted)
          => status' = "processing"
     /\ ev'.name = "EmbroideryGenerated"
          => (status = "processing" /\ status' = "removing_background"
                /\ history' = history)
     /\ \A i \in 1..Len(ops) :
          (ev'.name = "BackgroundRemoved" /\ ops[i].pc = "rb"
             /\ ops' = RemoveAt(ops, i))
            => (status = "removing_background" /\ status' = "complete"
                  /\ history' = Append(history, removeBackground(ops[i].gen))
                  /\ history'[Len(history')].b64.keyed)]_vars

\* C14: when handleMagicEdit succeeds, history gains exactly one entry, the
\* image the Generative Client returned tagged image/jpeg with no
\* removeBackground pass, status is complete, the prompt is empty, and the
\* earlier entries and originalImage are as before.
C14_MagicEditDone ==
  [][ev'.name = "MagicEditResolved"
       => /\ \E reply \in Replies :
               /\ GenerateResult(reply).ok
               /\ history' = Append(history,
                                 DataUrl("image/jpeg", GenerateResult(reply).val))
          /\ ~history'[Len(history')].b64.keyed
          /\ currentImage' = history'[Len(history')]
          /\ status' = "complete"
          /\ editPrompt' = <<>>
          /\ originalImage' = originalImage]_vars

\* a prompt edit that completed on top of an earlier entry
C14_Witness ==
  ev.name = "MagicEditResolved" /\ Len(history) >= 2 /\ status = "complete"

\* C15: a handleUndo called while status is neither idle nor complete leaves
\* history and currentImage unchanged.
C15_UndoGate ==
  [][(ev'.name = "handleUndo" /\ NotReady)
       => UNCHANGED <<history, currentImage>>]_vars

\* C16: a handleUndo called with more than one entry removes exactly the last
\* one (currentImage following to the new last entry) and leaves status,
\* originalImage, the prompt, the error message and the handlers in flight
\* unchanged.
C16_UndoFrame ==
  [][(ev'.name = "handleUndo" /\ Len(history) > 1)
       => /\ history' = SubSeq(history, 1, Len(history) - 1)
          /\ currentImage' = history[Len(history) - 1]
          /\ UNCHANGED <<status, originalImage, editPrompt, mimeType, error,
                         ops>>]_vars

\* an undo performed with status complete
C16_Witness ==
  ev.name = "handleUndo" /\ ev.accepted /\ status = "complete"

\* C20: only the success path of handleImageSelect changes originalImage; the
\* transforms, undo, reset and a failed upload leave it as it is.
C20_OriginalSetOnce ==
  [][originalImage' # originalImage => ev'.name = "ResizeResolved"]_vars

\* a second upload that failed, the first session's original still stored
C20_Witness ==
  ev.name = "ResizeRejected" /\ originalImage # Null

\* C17: after removeBackground's loop, every pixel whose Euclidean distance
\* from white is strictly below the tolerance has alpha 0 and its R, G, B as
\* before, every other pixel has all four channels as before, and the output
\* has the input's width and height.
C17_RemoveBackgroundPixels ==
  (canvas.fn = "removeBackground" /\ canvas.stage = "keyed")
    => /\ canvas.out.width = canvas.img.width
       /\ canvas.out.height = canvas.img.height
       /\ Len(canvas.out.data) = Len(canvas.img.data)
       /\ \A k \in 0..(canvas.img.width * canvas.img.height - 1) :
            LET in == SubSeq(canvas.img.data, 4 * k + 1, 4 * k + 4)
                out == SubSeq(canvas.out.data, 4 * k + 1, 4 * k + 4)
                d2 == (255 - in[1]) * (255 - in[1])
                        + (255 - in[2]) * (255 - in[2])
                        + (255 - in[3]) * (255 - in[3])
            IN IF canvas.arg > 0 /\ d2 < canvas.arg * canvas.arg
               THEN out = <<in[1], in[2], in[3], 0>>
               ELSE out = in

\* tolerance 30: a pixel at distance 29 cleared, one at exactly 30 kept
C17_Witness ==
  /\ canvas.stage = "keyed" /\ canvas.arg = 30
  /\ canvas.img.data = <<226, 255, 255, 255, 225, 255, 255, 255>>
  /\ canvas.out.data = <<226, 255, 255, 0, 225, 255, 255, 255>>

\* C18: running removeBackground's loop on its own output gives the same
\* RGBA values as running it once.
C18_Idempotent ==
  (canvas.fn = "removeBackground" /\ canvas.stage = "rekeyed")
    => canvas.out = canvas.once

\* a second pass over an image the first pass changed
C18_Witness ==
  /\ canvas.stage = "rekeyed"
  /\ canvas.once.data # canvas.img.data
  /\ canvas.img.data[4] = 128

\* C19: the size resizeImage gives the canvas has its longer side at most
\* maxDimension, is the image's own size when neither side exceeds
\* maxDimension, and keeps the aspect ratio to within one pixel of the scaled
\* side; 2000 x 1000 with maxDimension 1024 becomes 1024 x 512.
C19_ResizeBounds ==
  (canvas.fn = "resizeImage" /\ canvas.stage = "drawn")
    => LET w == canvas.img.width
           h == canvas.img.height
           m == canvas.arg
           ow == canvas.out.width
           oh == canvas.out.height
           long == IF w > h THEN w ELSE h
           diff == ow * h - oh * w
       IN /\ ow <= m /\ oh <= m
          /\ (w <= m /\ h <= m) => (ow = w /\ oh = h)
          /\ diff <= long /\ -diff <= long
          /\ (w = 2000 /\ h = 1000 /\ m = 1024) => (ow = 1024 /\ oh = 512)

\* a size whose scaled side is exactly 512 but comes out as 511
C19_Witness ==
  /\ canvas.stage = "drawn"
  /\ canvas.img.width = 1122 /\ canvas.img.height = 561
  /\ canvas.out.width = 1024 /\ canvas.out.height = 511

\* C21: whatever the credential gate answers, handleUpscale goes on: each
\* settling of hasSelectedApiKey or openSelectKey either moves the handler
\* from the first to the second, or sets status to upscaling with the
\* Generative Client request issued; none ends the handler or sets error.
GateSteps ==
  {"HasSelectedApiKeyResolved", "OpenSelectKeyResolved", "CredentialGateRejected"}

C21_GateNeverStops ==
  [][ev'.name \in GateSteps
       => /\ Len(ops') = Len(ops)
          /\ status' # "error" \/ status = "error"
          /\ \E i \in 1..Len(ops) :
               /\ ops[i].kind = "upscale"
               /\ ops[i].pc \in {"hasSelectedApiKey", "openSelectKey"}
               /\ \/ /\ ops[i].pc = "hasSelectedApiKey"
                     /\ ops' = [ops EXCEPT ![i].pc = "openSelectKey"]
                     /\ UNCHANGED session
                  \/ /\ status' = "upscaling"
                     /\ ops'[i].pc = "gen"
                     /\ ops'[i].sent = upscaleImage(Base64Of(ops[i].img),
                                                    ops[i].mime)]_vars

\* C22: whenever a handler issues a Generative Client request, the image in
\* the request is the last entry of history at that step, also when
\* handleUpscale waited on the credential gate and history changed meanwhile.
C22_CallSendsLast ==
  [][Len(ops') >= Len(ops)
       => \A i \in 1..Len(ops') :
            (ops'[i].sent # Null /\ (i > Len(ops) \/ ops[i].sent = Null))
              => /\ history # <<>>
                 /\ ops'[i].sent.data = Base64Of(history[Len(history)])]_vars

\* C23: while a session exists, the first entry of history is the data URL
\* handleReset builds from mimeType and originalImage, so an undo that arrives
\* at one entry shows the image a reset would show.
C23_FirstIsOriginal ==
  Truthy(originalImage)
    => /\ history # <<>>
       /\ history[1] = DataUrl(mimeType, originalImage)
       /\ (ev.name \in {"handleUndo", "handleReset"} /\ ev.accepted
             /\ Len(history) = 1)
            => currentImage = DataUrl(mimeType, originalImage)

\* an undo that came back to the first entry
C23_Witness ==
  /\ ev.name = "handleUndo" /\ ev.accepted /\ Len(history) = 1
  /\ currentImage = DataUrl(mimeType, originalImage)

\* C24: after every step, a status of idle, complete or error means no
\* handler is in flight, and removing_background is entered only from
\* processing, by the embroidery handler that set processing.
C24_StatusReflectsWork ==
  [][/\ status' \in {"idle", "complete", "error"} => ops' = <<>>
     /\ (status' = "removing_background" /\ status # "removing_background")
          => (status = "processing" /\ ev'.name = "EmbroideryGenerated")]_vars

\* C25: the MIME type in every Generative Client request is the type in the
\* data URL of the image it carries; an image/png entry appended by the
\* embroidery flow is sent as image/png.
C25_SentMimeMatchesEntry ==
  \A i \in 1..Len(ops) :
    ops[i].sent # Null
      => /\ ops[i].sent.data = Base64Of(ops[i].img)
         /\ ops[i].sent.mimeType = ops[i].img.mime

=============================================================================
